---- MODULE Spec2Model ----
(***************************************************************************)
(* Model of the ollama-commit extension (src/src/extension.ts): the        *)
(* 'ollama-commit.generate' command handler, generateCommitMessage with    *)
(* its NDJSON stream accumulator (data / end / error callbacks), and the   *)
(* helpers getGitAPI and getStagedDiff.                                    *)
(*                                                                         *)
(* Text is a sequence of one-character strings.  The wire carries bytes;   *)
(* the two bytes LEAD, CONT are the UTF-8 encoding of the one non-ASCII    *)
(* character EACUTE.  A JSON record {"response":"<frag>"} is abbreviated to   *)
(* the line  { <frag> }  : an opening brace, the characters of the         *)
(* fragment, a closing brace.  {} is a record without a response field.    *)
(***************************************************************************)
EXTENDS Integers, Sequences, FiniteSets, TLC

\* ------------------------------------------------------------------------
\* Bounds of the model
\* ------------------------------------------------------------------------
MaxStream == 4      \* bytes delivered on the response stream of one request
MaxChunk == 3       \* bytes in one data event
MaxLines == 2       \* lines of a scripted response body
MaxFrag == 1        \* characters in one record's fragment
MaxEvents == 2      \* data events per request when two requests overlap
MaxLate == 2        \* events delivered after the stream's terminal event
MaxDrain == 1       \* chunks read from an HTTP error body
MaxDiff == 3        \* characters of a staged diff
MaxLimit == 2       \* largest configured maxDiffLength

\* ------------------------------------------------------------------------
\* Characters and bytes
\* ------------------------------------------------------------------------
NL == "\n"
LEAD == "C3"        \* first byte of the two-byte UTF-8 sequence
CONT == "A9"        \* continuation byte of the two-byte UTF-8 sequence
EACUTE == "U+E9"    \* the character the sequence LEAD CONT encodes
REPL == "U+FFFD"    \* what decoding yields for a broken sequence

AsciiBytes == {"{", "}", "a", " ", NL}
Letters ==
    {"A","B","C","D","E","F","G","H","I","J","K","L","M",
     "N","O","P","Q","R","S","T","U","V","W","X","Y","Z",
     "a","b","c","d","e","f","g","h","i","j","k","l","m",
     "n","o","p","q","r","s","t","u","v","w","x","y","z"}
\* what the text of a record's "response" member is made of
FragChars == Letters \cup {" ", EACUTE, REPL, "\"", "'", ":"}
WhiteSpace == {" ", NL}

\* ------------------------------------------------------------------------
\* chunk.toString(): UTF-8 decoding of ONE chunk, on its own
\* ------------------------------------------------------------------------
RECURSIVE ChunkToString(_)
ChunkToString(bytes) ==
    IF bytes = <<>> THEN <<>>
    ELSE IF bytes[1] = LEAD /\ Len(bytes) >= 2 /\ bytes[2] = CONT
         THEN <<EACUTE>> \o ChunkToString(SubSeq(bytes, 3, Len(bytes)))
    ELSE IF bytes[1] \in {LEAD, CONT}
         THEN <<REPL>> \o ChunkToString(Tail(bytes))
    ELSE <<bytes[1]>> \o ChunkToString(Tail(bytes))

\* ------------------------------------------------------------------------
\* String.prototype.trim, split('\n'), substring(n)
\* ------------------------------------------------------------------------
RECURSIVE TrimLeft(_)
TrimLeft(s) ==
    IF s # <<>> /\ s[1] \in WhiteSpace THEN TrimLeft(Tail(s)) ELSE s

RECURSIVE TrimRight(_)
TrimRight(s) ==
    IF s # <<>> /\ s[Len(s)] \in WhiteSpace
    THEN TrimRight(SubSeq(s, 1, Len(s) - 1)) ELSE s

Trim(s) == TrimRight(TrimLeft(s))

\* index of the first newline of s, 0 when there is none
RECURSIVE IndexOfNL(_, _)
IndexOfNL(s, k) ==
    IF k > Len(s) THEN 0
    ELSE IF s[k] = NL THEN k ELSE IndexOfNL(s, k + 1)

RECURSIVE SplitLines(_)
SplitLines(s) ==
    LET k == IndexOfNL(s, 1) IN
    IF k = 0 THEN <<s>>
    ELSE <<SubSeq(s, 1, k - 1)>> \o SplitLines(SubSeq(s, k + 1, Len(s)))

Substring(s, n) == SubSeq(s, n + 1, Len(s))

\* ------------------------------------------------------------------------
\* JSON.parse of one candidate line, and parsed.response || ''
\* ------------------------------------------------------------------------
JsonParses(line) ==
    LET t == Trim(line) IN
    /\ Len(t) >= 2
    /\ t[1] = "{"
    /\ t[Len(t)] = "}"
    /\ \A k \in 2..(Len(t) - 1) : t[k] \in FragChars

ResponseOf(line) ==
    LET t == Trim(line) IN SubSeq(t, 2, Len(t) - 1)

\* ------------------------------------------------------------------------
\* stream.on('data'): the accumulator step on one decoded chunk
\* ------------------------------------------------------------------------
NonBlank(line) == Trim(line) # <<>>

JsonResponses(buf) == SelectSeq(SplitLines(buf), NonBlank)

\* the forEach over jsonResponses: a line that parses appends its fragment
\* to generatedMessage and itself plus "\n" to processedResponse; a line
\* that throws changes nothing
RECURSIVE ForEachLine(_, _)
ForEachLine(lines, st) ==
    IF lines = <<>> THEN st
    ELSE LET jsonString == Head(lines) IN
         ForEachLine(Tail(lines),
            IF JsonParses(jsonString)
            THEN [generatedMessage |-> st.generatedMessage \o ResponseOf(jsonString),
                  processedResponse |-> st.processedResponse \o jsonString \o <<NL>>]
            ELSE st)

OnData(fullResponse, generatedMessage, chunk) ==
    LET buf == fullResponse \o ChunkToString(chunk)
        st == ForEachLine(JsonResponses(buf),
                          [generatedMessage |-> generatedMessage,
                           processedResponse |-> <<>>])
    IN [fullResponse |-> Substring(buf, Len(st.processedResponse)),
        generatedMessage |-> st.generatedMessage]

\* positions of buf that lie inside a candidate line which parsed in this
\* data event (k is the position scanned, from is where its line starts)
LineAt(buf, k) ==
    LET from == CHOOSE f \in 1..k :
                    /\ \A j \in f..k : buf[j] # NL
                    /\ (f = 1 \/ buf[f - 1] = NL)
        to == CHOOSE t \in k..Len(buf) :
                    /\ \A j \in k..t : buf[j] # NL
                    /\ (t = Len(buf) \/ buf[t + 1] = NL)
    IN SubSeq(buf, from, to)

ParsedPositions(buf) ==
    {k \in 1..Len(buf) : buf[k] # NL /\ JsonParses(LineAt(buf, k))}

\* ------------------------------------------------------------------------
\* stream.on('end'): the final parse of what is left in fullResponse
\* ------------------------------------------------------------------------
\* an end handler that drops what is left in the buffer unparsed
OnEndDiscard(fullResponse, generatedMessage) == generatedMessage

OnEndAccumulate(fullResponse, generatedMessage) ==
    IF Trim(fullResponse) # <<>> /\ JsonParses(fullResponse)
    THEN generatedMessage \o ResponseOf(fullResponse)
    ELSE generatedMessage

\* ------------------------------------------------------------------------
\* Cleanup of the accumulated text (end handler)
\* ------------------------------------------------------------------------
Upper == <<"A","B","C","D","E","F","G","H","I","J","K","L","M",
           "N","O","P","Q","R","S","T","U","V","W","X","Y","Z">>
Lower == <<"a","b","c","d","e","f","g","h","i","j","k","l","m",
           "n","o","p","q","r","s","t","u","v","w","x","y","z">>

ToLower(c) ==
    IF \E k \in 1..26 : Upper[k] = c
    THEN Lower[CHOOSE k \in 1..26 : Upper[k] = c]
    ELSE c

CommitMessageLabel ==
    <<"c","o","m","m","i","t"," ","m","e","s","s","a","g","e",":">>
MessageLabel == <<"m","e","s","s","a","g","e",":">>

StartsWithIgnoreCase(s, label) ==
    /\ Len(s) >= Len(label)
    /\ \A k \in 1..Len(label) : ToLower(s[k]) = label[k]

\* a label removal that compares case-sensitively
StripLabelExact(s, label) ==
    IF Len(s) >= Len(label) /\ SubSeq(s, 1, Len(label)) = label
    THEN Substring(s, Len(label)) ELSE s

\* s.replace(/^label/i, '')
StripLabel(s, label) ==
    IF StartsWithIgnoreCase(s, label) THEN Substring(s, Len(label)) ELSE s

Wrapped(s, q) == s # <<>> /\ s[1] = q /\ s[Len(s)] = q

\* s.substring(1, s.length - 1); substring swaps its arguments when the
\* first is the larger, so a one-character s is returned whole
StripQuotes(s) ==
    IF Len(s) = 1 THEN s ELSE SubSeq(s, 2, Len(s) - 1)

CleanMessage(generatedMessage) ==
    LET trimmed == Trim(generatedMessage)
        unquoted == IF Wrapped(trimmed, "\"") \/ Wrapped(trimmed, "'")
                    THEN StripQuotes(trimmed) ELSE trimmed
        noCommit == Trim(StripLabel(unquoted, CommitMessageLabel))
    IN Trim(StripLabel(noCommit, MessageLabel))

\* ------------------------------------------------------------------------
\* The prompt: truncation of the diff and promptTemplate.replace
\* ------------------------------------------------------------------------
MaxDiffLengthDefault == 4000

TruncationMarker ==
    <<NL, ".", ".", ".", " ", "(", "d", "i", "f", "f", " ",
      "t", "r", "u", "n", "c", "a", "t", "e", "d", ")">>

Placeholder == <<"{", "d", "i", "f", "f", "}">>

\* config.get<number>('maxDiffLength', 4000)
MaxDiffLengthOf(setting) ==
    IF setting = <<>> THEN MaxDiffLengthDefault ELSE setting[1]

\* diff.length > maxDiffLength ? diff.substring(0, maxDiffLength) + marker : diff
TruncatedDiff(d, maxLen) ==
    IF Len(d) > maxLen THEN SubSeq(d, 1, maxLen) \o TruncationMarker ELSE d

\* s.indexOf(pat) + 1: where the first occurrence of pat starts, 0 for none
IndexOf(s, pat) ==
    LET at == {k \in 1..(Len(s) - Len(pat) + 1) :
                   SubSeq(s, k, k + Len(pat) - 1) = pat}
    IN IF at = {} THEN 0 ELSE CHOOSE k \in at : \A j \in at : k <= j

GRAVE == "U+60"     \* the grave accent character

\* GetSubstitution for a string pattern: in the replacement text $$ stands
\* for $, $& for the matched text, $ with a grave accent for what precedes
\* the match and $' for what follows it; any other $ is literal
RECURSIVE GetSubstitution(_, _, _, _)
GetSubstitution(repl, matched, before, after) ==
    IF repl = <<>> THEN <<>>
    ELSE IF repl[1] = "$" /\ Len(repl) >= 2 /\ repl[2] \in {"$", "&", GRAVE, "'"}
    THEN (CASE repl[2] = "$" -> <<"$">>
            [] repl[2] = "&" -> matched
            [] repl[2] = GRAVE -> before
            [] OTHER -> after)
         \o GetSubstitution(SubSeq(repl, 3, Len(repl)), matched, before, after)
    ELSE <<repl[1]>> \o GetSubstitution(Tail(repl), matched, before, after)

\* s.replace(pat, repl) with a string pattern: the first occurrence only
StringReplace(s, pat, repl) ==
    LET k == IndexOf(s, pat)
        before == SubSeq(s, 1, k - 1)
        after == SubSeq(s, k + Len(pat), Len(s))
    IN IF k = 0 THEN s
       ELSE before \o GetSubstitution(repl, pat, before, after) \o after

FinalPrompt(template, d, setting) ==
    StringReplace(template, Placeholder,
                  TruncatedDiff(d, MaxDiffLengthOf(setting)))

\* ------------------------------------------------------------------------
\* State
\* ------------------------------------------------------------------------
Inv == {1, 2}       \* command invocations

VARIABLES
    pc,                 \* where each invocation of the command handler is
    notices,            \* vscode.window.show*Message calls of each invocation
    inputBox,           \* repo.inputBox.value, one field for the repository
    writes,             \* the values assigned to repo.inputBox.value, in order
    posts,              \* axios.post calls issued by each invocation
    cfg,                \* the configuration generateCommitMessage read
    diff,               \* what repo.diff(true) gave the invocation
    stream,             \* response stream: "none", "open", "ended", "errored"
    wire,               \* the bytes of the response body, when scripted
    diffText,           \* the text repo.diff(true) returns when it returns text
    promptTemplate,     \* the 'prompt' setting when it is set
    maxDiffLength,      \* the 'maxDiffLength' setting, <<>> when not set
    request,            \* the body of the axios.post of each invocation
    sent,               \* how many bytes of wire have been delivered
    fullResponse,       \* let fullResponse of each request
    generatedMessage,   \* let generatedMessage of each request
    received,           \* decoded text handed to the data handler so far
    parsedPos,          \* positions of received inside a line that parsed
    chunks,             \* the chunks delivered to each request, in order
    promise,            \* the Promise generateCommitMessage returns
    result,             \* what the await in the command handler received
    delivered,          \* times the awaiting handler was resumed
    drain,              \* the bounded read of an HTTP error body stream
    late                \* events delivered after the terminal event

vars == <<pc, notices, inputBox, writes, posts, request, cfg, diff, stream,
          wire, diffText, promptTemplate, maxDiffLength, sent, fullResponse, generatedMessage, received, parsedPos,
          chunks, promise, result, delivered, drain, late>>

\* what the environment holds ready for an invocation: the response body,
\* the staged diff and the settings
script == <<wire, diffText, promptTemplate, maxDiffLength>>

accVars == <<fullResponse, generatedMessage, received, parsedPos,
             chunks>>

Notice(kind, text) == [kind |-> kind, text |-> text]

NoResult == [kind |-> "none", value |-> <<>>]
NullResult == [kind |-> "null", value |-> <<>>]
TextResult(t) == [kind |-> "text", value |-> t]
ErrorResult(e) == [kind |-> "error", value |-> e]

Settings == {"absent", "empty", "set"}
Configs == [apiUrl : Settings, model : Settings, prompt : Settings]
GoodConfig == [apiUrl |-> "set", model |-> "set", prompt |-> "set"]
NoConfig == [apiUrl |-> "unread", model |-> "unread", prompt |-> "unread"]

\* a check that forgets the prompt template
ConfigMissingNoPrompt(c) == c.apiUrl # "set" \/ c.model # "set"

\* !apiUrl || !model || !promptTemplate
ConfigMissing(c) ==
    c.apiUrl # "set" \/ c.model # "set" \/ c.prompt # "set"

\* the transport errors a stream can emit: whether error.message includes
\* ECONNREFUSED, and whether it is an axios error that carries a response
StreamErrors == [refused : BOOLEAN, axiosResponse : BOOLEAN]

\* the Promise awaited at the error-body read: whether it is settled, how
\* many chunks its data handler has appended, whether the 500 ms timer has
\* fired and whether the error stream has ended or failed
NoDrain == [state |-> "none", data |-> 0, timer |-> FALSE, closed |-> FALSE,
            details |-> "none"]

OldValues == {<<>>, <<"o">>}    \* what the input field may hold beforehand

NoRequest == [posted |-> FALSE, prompt |-> <<>>]

Idle ==
    /\ pc = [i \in Inv |-> "idle"]
    /\ notices = [i \in Inv |-> <<>>]
    /\ inputBox \in OldValues
    /\ writes = <<>>
    /\ posts = [i \in Inv |-> 0]
    /\ request = [i \in Inv |-> NoRequest]
    /\ cfg = [i \in Inv |-> NoConfig]
    /\ diff = [i \in Inv |-> "unread"]
    /\ stream = [i \in Inv |-> "none"]
    /\ sent = 0
    /\ fullResponse = [i \in Inv |-> <<>>]
    /\ generatedMessage = [i \in Inv |-> <<>>]
    /\ received = [i \in Inv |-> <<>>]
    /\ parsedPos = [i \in Inv |-> {}]
    /\ chunks = [i \in Inv |-> <<>>]
    /\ promise = [i \in Inv |-> "none"]
    /\ result = [i \in Inv |-> NoResult]
    /\ delivered = [i \in Inv |-> 0]
    /\ drain = [i \in Inv |-> NoDrain]
    /\ late = 0

\* a one-character diff, the bare placeholder as template, the default limit
PlainSettings ==
    /\ diffText = <<"d">>
    /\ promptTemplate = Placeholder
    /\ maxDiffLength = <<>>

Init == Idle /\ wire = <<>> /\ PlainSettings

\* ------------------------------------------------------------------------
\* The command handler up to the HTTP request
\* ------------------------------------------------------------------------
Show(i, ns) == notices' = [notices EXCEPT ![i] = @ \o ns]

\* registerCommand callback: getGitAPI, then the repository check
\*   api: what getGitAPI met; repos: gitAPI.repositories.length
GitApiOutcomes == {"noExtension", "noApi", "throws", "ok"}

GetGitAPINotices(api) ==
    CASE api = "noExtension" -> <<Notice("error", "GitExtensionUnavailable")>>
      [] api = "noApi" -> <<Notice("error", "UnableToGetGitAPI")>>
      [] api = "throws" -> <<Notice("error", "ErrorGettingGitAPI")>>
      [] OTHER -> <<>>

Invoke(i, api, repos) ==
    /\ pc[i] = "idle"
    /\ IF api # "ok"
       THEN /\ Show(i, GetGitAPINotices(api))
            /\ pc' = [pc EXCEPT ![i] = "returned"]
       ELSE IF repos = 0
       THEN /\ Show(i, <<Notice("info", "NoRepositoryInWorkspace")>>)
            /\ pc' = [pc EXCEPT ![i] = "returned"]
       ELSE /\ Show(i, <<>>)
            /\ pc' = [pc EXCEPT ![i] = "getStagedDiff"]
    /\ diff' = [diff EXCEPT ![i] =
                     IF api = "ok" /\ repos = 0 THEN "norepo" ELSE @]
    /\ UNCHANGED <<inputBox, writes, posts, request, cfg, stream, script, sent, accVars,
                   promise, result, delivered, drain, late>>

\* getStagedDiff and the handler's `if (!diff) return`
\*   repos: gitAPI.repositories.length as read again by getStagedDiff
\*   d: what repo.diff(true) does
DiffOutcomes == {"throws", "undefined", "empty", "text"}

GetStagedDiffNotices(repos, d) ==
    IF repos = 0 THEN <<Notice("info", "NoRepository")>>
    ELSE CASE d = "throws" -> <<Notice("error", "ErrorGettingDiff")>>
           [] d \in {"undefined", "empty"} -> <<Notice("info", "NoStagedChanges")>>
           [] OTHER -> <<>>

\* a check that lets an empty diff through
HasDiffLoose(repos, d) == repos # 0 /\ d \in {"text", "empty"}

\* getStagedDiff returned a diff and the handler's `if (!diff)` let it pass
HasDiff(repos, d) == repos # 0 /\ d = "text"

GetStagedDiff(i, repos, d) ==
    /\ pc[i] = "getStagedDiff"
    /\ Show(i, GetStagedDiffNotices(repos, d))
    /\ diff' = [diff EXCEPT ![i] = IF repos = 0 THEN "norepo" ELSE d]
    /\ pc' = [pc EXCEPT ![i] =
                 IF HasDiff(repos, d) THEN "generate" ELSE "returned"]
    /\ UNCHANGED <<inputBox, writes, posts, request, cfg, stream, script, sent, accVars,
                   promise, result, delivered, drain, late>>

\* the handler after `await generateCommitMessage(diff)` gave r
\*   hasBox: whether repo.inputBox exists
\* a handler that assigns the field whenever there is one
WritesBoxAlways(r, hasBox) == hasBox /\ r.kind # "error"

\* if (generatedMessage && repo.inputBox)
WritesBox(r, hasBox) == r.kind = "text" /\ r.value # <<>> /\ hasBox

AfterGenerate(i, r, hasBox, shown) ==
    /\ result' = [result EXCEPT ![i] = r]
    /\ delivered' = [delivered EXCEPT ![i] = @ + 1]
    /\ IF r.kind = "error"
       THEN /\ pc' = [pc EXCEPT ![i] = "rejected"]
            /\ Show(i, shown)
            /\ UNCHANGED <<inputBox, writes>>
       ELSE IF WritesBox(r, hasBox)
       THEN /\ pc' = [pc EXCEPT ![i] = "returned"]
            /\ inputBox' = r.value
            /\ writes' = Append(writes, r.value)
            /\ Show(i, shown \o <<Notice("info", "Generated")>>)
       ELSE IF r.kind = "null"
       THEN /\ pc' = [pc EXCEPT ![i] = "returned"]
            /\ Show(i, shown)
            /\ UNCHANGED <<inputBox, writes>>
       ELSE /\ pc' = [pc EXCEPT ![i] = "returned"]
            /\ Show(i, shown \o <<Notice("warning", "NoInputBox")>>)
            /\ UNCHANGED <<inputBox, writes>>

\* generateCommitMessage up to axios.post
\*   c: the configuration read
Generate(i, c, hasBox) ==
    /\ pc[i] = "generate"
    /\ cfg' = [cfg EXCEPT ![i] = c]
    /\ IF ConfigMissing(c)
       THEN /\ AfterGenerate(i, NullResult, hasBox,
                             <<Notice("error", "ConfigurationMissing")>>)
            /\ UNCHANGED <<posts, request>>
       ELSE /\ posts' = [posts EXCEPT ![i] = @ + 1]
            /\ request' = [request EXCEPT ![i] =
                               [posted |-> TRUE,
                                prompt |-> FinalPrompt(promptTemplate, diffText,
                                                       maxDiffLength)]]
            /\ pc' = [pc EXCEPT ![i] = "awaitPost"]
            /\ UNCHANGED <<notices, inputBox, writes, result, delivered>>
    /\ UNCHANGED <<diff, stream, script, sent, accVars, promise, drain, late>>

\* ------------------------------------------------------------------------
\* axios.post settles
\* ------------------------------------------------------------------------
\* accumulators declared once for the module, shared by every request
OwnShared(i) == 1

\* fullResponse and generatedMessage are declared inside
\* generateCommitMessage: the callbacks of request i close over request i's
Own(i) == i

\* a future that every call of resolve or reject settles again
SettlesAgain(p) == p # "none"

\* the Promise of `new Promise((resolve, reject) => ...)`: only the first
\* call of resolve or reject settles it and resumes the awaiting handler
Settles(p) == p = "pending"

\* 2xx response headers arrived: response.data is an open stream and the
\* three callbacks are registered
Headers(i) ==
    /\ pc[i] = "awaitPost"
    /\ pc' = [pc EXCEPT ![i] = "streaming"]
    /\ stream' = [stream EXCEPT ![i] = "open"]
    /\ promise' = [promise EXCEPT ![i] = "pending"]
    /\ fullResponse' = [fullResponse EXCEPT ![Own(i)] = <<>>]
    /\ generatedMessage' = [generatedMessage EXCEPT ![Own(i)] = <<>>]
    /\ UNCHANGED <<notices, inputBox, writes, posts, request, cfg, diff, script, sent, received,
                   parsedPos, chunks, result, delivered, drain, late>>

\* axios.post rejects: the catch block
PostFailures == {"responseBody", "noResponse", "axiosOther", "error", "other"}

CatchNotice(kind) ==
    CASE kind = "responseBody" -> Notice("error", "OllamaApiError")
      [] kind = "noResponse" -> Notice("error", "CouldNotConnect")
      [] kind = "axiosOther" -> Notice("error", "AxiosError")
      [] kind = "error" -> Notice("error", "Error")
      [] OTHER -> Notice("error", "FailedToGenerate")

\* a catch block that reports the failure and issues the request once more
PostFailsRetry(i, kind, hasBox) ==
    /\ pc[i] = "awaitPost"
    /\ IF posts[i] < 2
       THEN /\ Show(i, <<CatchNotice(kind)>>)
            /\ posts' = [posts EXCEPT ![i] = @ + 1]
            /\ UNCHANGED <<pc, inputBox, writes, result, delivered>>
       ELSE /\ AfterGenerate(i, NullResult, hasBox, <<CatchNotice(kind)>>)
            /\ UNCHANGED posts
    /\ UNCHANGED <<request, cfg, diff, stream, script, sent, accVars, promise,
                   drain, late>>

PostFails(i, kind, hasBox) ==
    /\ pc[i] = "awaitPost"
    /\ AfterGenerate(i, NullResult, hasBox, <<CatchNotice(kind)>>)
    /\ UNCHANGED <<posts, request, cfg, diff, stream, script, sent, accVars, promise, drain, late>>

\* axios.post rejects with a response whose body is itself a stream: the
\* catch block awaits the bounded read of it
PostFailsWithStream(i) ==
    /\ pc[i] = "awaitPost"
    /\ pc' = [pc EXCEPT ![i] = "draining"]
    /\ drain' = [drain EXCEPT ![i] = [NoDrain EXCEPT !.state = "pending"]]
    /\ UNCHANGED <<notices, inputBox, writes, posts, request, cfg, diff, stream, script, sent,
                   accVars, promise, result, delivered, late>>

\* errorDetails.on('data'): data += chunk.toString()
DrainData(i) ==
    /\ drain[i].state # "none"
    /\ ~drain[i].closed
    /\ drain[i].data < MaxDrain
    /\ drain' = [drain EXCEPT ![i].data = @ + 1]
    /\ UNCHANGED <<pc, notices, inputBox, writes, posts, request, cfg, diff, stream,
                   script, sent, accVars, promise, result, delivered, late>>

\* errorDetails.on('end'), errorDetails.on('error') and the setTimeout
\* callback: each calls resolve; the first one settles the read, and the
\* catch block then reports the HTTP error and returns null
DrainEvents == {"end", "error", "timer"}

DrainDetails(ev, data) ==
    CASE ev = "end" -> IF data > 0 THEN "partial" ELSE "statusText"
      [] ev = "error" -> "ErrorReadingErrorStream"
      [] OTHER -> IF data > 0 THEN "partial" ELSE "TimeoutReadingErrorStream"

\* a bounded read without its setTimeout
TimerNeverArmed(d) == FALSE

\* setTimeout(..., 500): armed when the read starts, fires once
TimerArmed(d) == ~d.timer

DrainEvent(i, ev, hasBox) ==
    /\ drain[i].state # "none"
    /\ IF ev = "timer" THEN TimerArmed(drain[i]) ELSE ~drain[i].closed
    /\ LET d == [drain[i] EXCEPT !.timer = (@ \/ ev = "timer"),
                                 !.closed = (@ \/ ev # "timer")]
       IN IF Settles(drain[i].state)
          THEN /\ drain' = [drain EXCEPT ![i] =
                              [d EXCEPT !.state = "settled",
                                        !.details = DrainDetails(ev, d.data)]]
               /\ AfterGenerate(i, NullResult, hasBox,
                                <<Notice("error", "OllamaApiError")>>)
          ELSE /\ drain' = [drain EXCEPT ![i] = d]
               /\ UNCHANGED <<pc, notices, inputBox, writes, result, delivered>>
    /\ UNCHANGED <<posts, request, cfg, diff, stream, script, sent, accVars, promise, late>>

\* ------------------------------------------------------------------------
\* The response stream's callbacks
\* ------------------------------------------------------------------------
DataHandler(i, chunk) ==
    LET text == ChunkToString(chunk)
        buf == fullResponse[Own(i)] \o text
        r == OnData(fullResponse[Own(i)], generatedMessage[Own(i)], chunk)
        base == Len(received[i]) + Len(text) - Len(buf)
    IN /\ fullResponse' = [fullResponse EXCEPT ![Own(i)] = r.fullResponse]
       /\ generatedMessage' = [generatedMessage EXCEPT ![Own(i)] = r.generatedMessage]
       /\ received' = [received EXCEPT ![i] = @ \o text]
       /\ parsedPos' = [parsedPos EXCEPT ![i] =
                          @ \cup {base + k : k \in ParsedPositions(buf)}]

EndNotices(cleaned) ==
    IF cleaned = <<>> THEN <<Notice("warning", "EmptyMessage")>> ELSE <<>>

\* an end handler that resolves with the cleaned text even when it is empty
EndResultAlwaysText(cleaned) == TextResult(cleaned)

EndResult(cleaned) ==
    IF cleaned = <<>> THEN NullResult ELSE TextResult(cleaned)

EndHandler(i, hasBox) ==
    LET gm == OnEndAccumulate(fullResponse[Own(i)], generatedMessage[Own(i)])
        cleaned == CleanMessage(gm)
    IN /\ generatedMessage' = [generatedMessage EXCEPT ![Own(i)] = gm]
       /\ IF Settles(promise[i])
          THEN /\ promise' = [promise EXCEPT ![i] = "resolved"]
               /\ AfterGenerate(i, EndResult(cleaned), hasBox, EndNotices(cleaned))
          ELSE /\ Show(i, EndNotices(cleaned))
               /\ UNCHANGED <<pc, inputBox, writes, promise, result, delivered>>

\* an error callback that looks for ECONNREFUSED before anything else
ErrorNoticeRefusedFirst(e) ==
    IF e.refused THEN Notice("error", "ConnectionRefused")
    ELSE IF e.axiosResponse THEN Notice("error", "StreamingErrorWithResponse")
    ELSE Notice("error", "StreamingError")

ErrorNotice(e) ==
    IF e.axiosResponse THEN Notice("error", "StreamingErrorWithResponse")
    ELSE IF e.refused THEN Notice("error", "ConnectionRefused")
    ELSE Notice("error", "StreamingError")

\* an error callback that hands back the text accumulated so far
ErrorOutcomePartial(e, gm) ==
    IF CleanMessage(gm) # <<>> THEN TextResult(CleanMessage(gm)) ELSE ErrorResult(e)

\* reject(error): what the error callback settles the Promise with
ErrorOutcome(e, gm) == ErrorResult(e)

ErrorHandler(i, e, hasBox) ==
    IF Settles(promise[i])
    THEN /\ promise' = [promise EXCEPT ![i] =
                           IF ErrorOutcome(e, generatedMessage[Own(i)]).kind = "error"
                           THEN "rejected" ELSE "resolved"]
         /\ AfterGenerate(i, ErrorOutcome(e, generatedMessage[Own(i)]), hasBox,
                          <<ErrorNotice(e)>>)
    ELSE /\ Show(i, <<ErrorNotice(e)>>)
         /\ UNCHANGED <<pc, inputBox, writes, promise, result, delivered>>

\* 'data' event on an open stream
Data(i, chunk) ==
    /\ pc[i] = "streaming"
    /\ stream[i] = "open"
    /\ DataHandler(i, chunk)
    /\ UNCHANGED <<pc, notices, inputBox, writes, posts, request, cfg, diff, stream,
                   promise, result, delivered, drain, late>>

\* 'end' event: the stream delivers nothing after it
End(i, hasBox) ==
    /\ pc[i] = "streaming"
    /\ stream[i] = "open"
    /\ stream' = [stream EXCEPT ![i] = "ended"]
    /\ EndHandler(i, hasBox)
    /\ UNCHANGED <<posts, request, cfg, diff, script, sent, fullResponse, received,
                   parsedPos, chunks, drain, late>>

\* an 'error' event with no callback registered for it
ErrorUnhandled(i, e, hasBox) ==
    /\ pc[i] = "streaming"
    /\ stream[i] = "open"
    /\ stream' = [stream EXCEPT ![i] = "errored"]
    /\ UNCHANGED <<pc, notices, inputBox, writes, promise, result, delivered>>
    /\ UNCHANGED <<posts, request, cfg, diff, script, sent, accVars, drain, late>>

\* 'error' event: the stream is destroyed and delivers nothing after it
Error(i, e, hasBox) ==
    /\ pc[i] = "streaming"
    /\ stream[i] = "open"
    /\ stream' = [stream EXCEPT ![i] = "errored"]
    /\ ErrorHandler(i, e, hasBox)
    /\ UNCHANGED <<posts, request, cfg, diff, script, sent, accVars, drain, late>>

\* ------------------------------------------------------------------------
\* One invocation, any configuration, any bytes on the stream
\* ------------------------------------------------------------------------
Bytes == AsciiBytes

ChunksUpTo(n) == UNION {[1..k -> Bytes] : k \in 1..n}

FreeData(i) ==
    \E chunk \in ChunksUpTo(MaxChunk) :
        /\ Len(received[i]) + Len(chunk) <= MaxStream
        /\ Data(i, chunk)
        /\ UNCHANGED <<script, sent, chunks>>

Next ==
    \/ \E api \in GitApiOutcomes, repos \in {0, 1} : Invoke(1, api, repos)
    \/ \E repos \in {0, 1}, d \in DiffOutcomes : GetStagedDiff(1, repos, d)
    \/ \E c \in Configs, hasBox \in BOOLEAN : Generate(1, c, hasBox)
    \/ Headers(1)
    \/ \E kind \in PostFailures, hasBox \in BOOLEAN : PostFails(1, kind, hasBox)
    \/ PostFailsWithStream(1)
    \/ DrainData(1)
    \/ \E ev \in DrainEvents, hasBox \in BOOLEAN : DrainEvent(1, ev, hasBox)
    \/ FreeData(1)
    \/ \E hasBox \in BOOLEAN : End(1, hasBox)
    \/ \E e \in StreamErrors, hasBox \in BOOLEAN : Error(1, e, hasBox)

Spec == Init /\ [][Next]_vars

\* ------------------------------------------------------------------------
\* One invocation whose response body is a given sequence of lines, cut
\* into chunks at any byte
\* ------------------------------------------------------------------------
RECURSIVE Utf8(_)
Utf8(text) ==
    IF text = <<>> THEN <<>>
    ELSE (IF Head(text) = EACUTE THEN <<LEAD, CONT>> ELSE <<Head(text)>>)
         \o Utf8(Tail(text))

SeqsUpTo(S, n) == UNION {[1..k -> S] : k \in 0..n}

\* the records a server sends: fragments over "a" and the non-ASCII character
Fragments == SeqsUpTo({"a", EACUTE}, MaxFrag)
RecordLines == {<<"{">> \o f \o <<"}">> : f \in Fragments}

\* lines that are no JSON: a long and a short stray word, a blank line, a
\* record cut short
JunkLines == {<<"a", "a", "a">>, <<"a">>, <<>>, <<"{", "a">>}

RECURSIVE JoinLines(_)
JoinLines(lines) ==
    IF lines = <<>> THEN <<>>
    ELSE Head(lines) \o <<NL>> \o JoinLines(Tail(lines))

\* every line newline-terminated, or the last one left unterminated
Bodies(lineSet) ==
    LET lists == UNION {[1..k -> lineSet] : k \in 1..MaxLines}
    IN {Utf8(JoinLines(l)) : l \in lists}
       \cup {Utf8(SubSeq(JoinLines(l), 1, Len(JoinLines(l)) - 1)) : l \in lists}

WellFormedBodies ==
    {Utf8(JoinLines(l)) : l \in UNION {[1..k -> RecordLines] : k \in 1..MaxLines}}

InitStream ==
    Idle /\ wire \in Bodies(RecordLines \cup JunkLines) /\ PlainSettings

ScriptedData(i) ==
    \E n \in 1..(Len(wire) - sent) :
        /\ Data(i, SubSeq(wire, sent + 1, sent + n))
        /\ sent' = sent + n
        /\ UNCHANGED <<script, chunks>>

ScriptedEnd(i) ==
    /\ sent = Len(wire)
    /\ \E hasBox \in BOOLEAN : End(i, hasBox)

NextStream ==
    \/ Invoke(1, "ok", 1)
    \/ GetStagedDiff(1, 1, "text")
    \/ \E hasBox \in BOOLEAN : Generate(1, GoodConfig, hasBox)
    \/ Headers(1)
    \/ ScriptedData(1)
    \/ ScriptedEnd(1)

SpecStream == InitStream /\ [][NextStream]_vars

\* ------------------------------------------------------------------------
\* Two invocations of the command in flight at once
\* ------------------------------------------------------------------------
\* the chunks a request may receive: a record cut in two, and a whole one
SomeChunks == {<<"{", "a">>, <<"}", NL>>, <<"{", " ", "}", NL>>}

PairData(i) ==
    \E chunk \in SomeChunks :
        /\ Len(chunks[i]) < MaxEvents
        /\ Data(i, chunk)
        /\ chunks' = [chunks EXCEPT ![i] = Append(@, chunk)]
        /\ UNCHANGED <<script, sent>>

NextPair ==
    \E i \in Inv :
        \/ Invoke(i, "ok", 1)
        \/ GetStagedDiff(i, 1, "text")
        \/ \E hasBox \in BOOLEAN : Generate(i, GoodConfig, hasBox)
        \/ Headers(i)
        \/ PairData(i)
        \/ \E hasBox \in BOOLEAN : End(i, hasBox)
        \/ \E e \in StreamErrors, hasBox \in BOOLEAN : Error(i, e, hasBox)

SpecPair == Init /\ [][NextPair]_vars

\* ------------------------------------------------------------------------
\* One request whose stream may emit data, end and error in any order,
\* also after its first end or error
\* ------------------------------------------------------------------------
AnyData(i) ==
    \E chunk \in SomeChunks :
        /\ Len(received[i]) + Len(chunk) <= MaxStream
        /\ Data(i, chunk)
        /\ UNCHANGED <<script, sent, chunks>>

Closed(i) == pc[i] # "idle" /\ stream[i] \in {"ended", "errored"}

LateData(i) ==
    \E chunk \in SomeChunks :
        /\ Closed(i)
        /\ late < MaxLate
        /\ late' = late + 1
        /\ DataHandler(i, chunk)
        /\ UNCHANGED <<pc, notices, inputBox, writes, posts, request, cfg, diff, stream,
                       script, sent, chunks, promise, result, delivered, drain>>

LateEnd(i, hasBox) ==
    /\ Closed(i)
    /\ late < MaxLate
    /\ late' = late + 1
    /\ EndHandler(i, hasBox)
    /\ UNCHANGED <<posts, request, cfg, diff, stream, script, sent, fullResponse, received,
                   parsedPos, chunks, drain>>

LateError(i, e, hasBox) ==
    /\ Closed(i)
    /\ late < MaxLate
    /\ late' = late + 1
    /\ ErrorHandler(i, e, hasBox)
    /\ UNCHANGED <<posts, request, cfg, diff, stream, script, sent, accVars, drain>>

NextAny ==
    \/ Invoke(1, "ok", 1)
    \/ GetStagedDiff(1, 1, "text")
    \/ \E hasBox \in BOOLEAN : Generate(1, GoodConfig, hasBox)
    \/ Headers(1)
    \/ AnyData(1)
    \/ \E hasBox \in BOOLEAN : End(1, hasBox)
    \/ \E e \in StreamErrors, hasBox \in BOOLEAN : Error(1, e, hasBox)
    \/ LateData(1)
    \/ \E hasBox \in BOOLEAN : LateEnd(1, hasBox)
    \/ \E e \in StreamErrors, hasBox \in BOOLEAN : LateError(1, e, hasBox)

SpecAny == Init /\ [][NextAny]_vars

\* ------------------------------------------------------------------------
\* One invocation up to its HTTP request, for any staged diff, template and
\* limit
\* ------------------------------------------------------------------------
DiffChars == {"d", "$", "&", "'"}

DiffTexts == UNION {[1..k -> DiffChars] : k \in 1..MaxDiff}

\* the placeholder alone, inside other text, twice, and not at all
Templates ==
    {Placeholder,
     <<"p">> \o Placeholder \o <<"q">>,
     Placeholder \o <<"+">> \o Placeholder,
     <<"p">>}

InitPrompt ==
    /\ Idle
    /\ wire = <<>>
    /\ diffText \in DiffTexts
    /\ promptTemplate \in Templates
    /\ maxDiffLength \in {<<>>} \cup {<<n>> : n \in 0..MaxLimit}

NextPrompt ==
    \/ Invoke(1, "ok", 1)
    \/ GetStagedDiff(1, 1, "text")
    \/ \E hasBox \in BOOLEAN : Generate(1, GoodConfig, hasBox)

SpecPrompt == InitPrompt /\ [][NextPrompt]_vars

\* ------------------------------------------------------------------------
\* One invocation whose response is a single record, delivered whole: the
\* cleanup of its text by the end handler
\* ------------------------------------------------------------------------
QuotedExample ==
    <<"\"", "R", "e", "f", "a", "c", "t", "o", "r", " ", "a", "u", "t",
      "h", " ", "m", "o", "d", "u", "l", "e", "\"">>

LabelledExample ==
    <<"C", "o", "m", "m", "i", "t", " ", "M", "e", "s", "s", "a", "g", "e",
      ":", " ", "A", "d", "d", " ", "r", "e", "t", "r", "y", " ", "l", "o",
      "g", "i", "c">>

Pads == {<<>>, <<" ">>}
Quotes == {<<>>, <<"\"">>, <<"'">>}
FirstLabels ==
    {<<>>, CommitMessageLabel,
     <<"C","o","m","m","i","t"," ","M","e","s","s","a","g","e",":">>,
     <<"M","E","S","S","A","G","E",":">>}
SecondLabels == {<<>>, MessageLabel, CommitMessageLabel}
Subjects == {<<>>, <<"x">>}

\* texts a model may answer with: quotes, padding and labels in every
\* combination around a subject, and the two examples
CleanInputs ==
    {p \o q \o pp \o l \o ll \o b \o qq :
        p \in Pads, q \in Quotes, pp \in Pads, l \in FirstLabels,
        ll \in SecondLabels, b \in Subjects, qq \in Quotes}
    \cup {QuotedExample, LabelledExample}

InitClean ==
    /\ Idle
    /\ wire \in {<<"{">> \o t \o <<"}", NL>> : t \in CleanInputs}
    /\ PlainSettings

\* the whole body arrives as one data event
WholeData(i) ==
    /\ sent = 0
    /\ Data(i, wire)
    /\ sent' = Len(wire)
    /\ UNCHANGED <<script, chunks>>

NextClean ==
    \/ Invoke(1, "ok", 1)
    \/ GetStagedDiff(1, 1, "text")
    \/ \E hasBox \in BOOLEAN : Generate(1, GoodConfig, hasBox)
    \/ Headers(1)
    \/ WholeData(1)
    \/ ScriptedEnd(1)

SpecClean == InitClean /\ [][NextClean]_vars

\* ------------------------------------------------------------------------
\* Invocations whose POST is answered with an HTTP error that carries a
\* stream as its body; the timer of the bounded read always fires
\* ------------------------------------------------------------------------
DrainTimer(i) == \E hasBox \in BOOLEAN : DrainEvent(i, "timer", hasBox)

NextDrain ==
    \E i \in Inv :
        \/ Invoke(i, "ok", 1)
        \/ GetStagedDiff(i, 1, "text")
        \/ \E hasBox \in BOOLEAN : Generate(i, GoodConfig, hasBox)
        \/ PostFailsWithStream(i)
        \/ DrainData(i)
        \/ \E ev \in DrainEvents, hasBox \in BOOLEAN : DrainEvent(i, ev, hasBox)

SpecDrain ==
    Init /\ [][NextDrain]_vars /\ \A i \in Inv : WF_vars(DrainTimer(i))

\* ------------------------------------------------------------------------
\* One invocation whose response stream is sure to close: after any of the
\* scripted data events the transport delivers 'end' (once the body is
\* through) or 'error'
\* ------------------------------------------------------------------------
StreamCloses(i) ==
    \/ \E e \in StreamErrors, hasBox \in BOOLEAN : Error(i, e, hasBox)
    \/ ScriptedEnd(i)

NextCloses ==
    \/ Invoke(1, "ok", 1)
    \/ GetStagedDiff(1, 1, "text")
    \/ \E hasBox \in BOOLEAN : Generate(1, GoodConfig, hasBox)
    \/ Headers(1)
    \/ ScriptedData(1)
    \/ StreamCloses(1)

\* bodies of records and of lines that never parse, short and long
InitCloses ==
    /\ Idle
    /\ wire \in Bodies({<<"{", "a", "}">>, <<"a">>, <<"a", "a", "a">>})
    /\ PlainSettings

SpecCloses == InitCloses /\ [][NextCloses]_vars /\ WF_vars(StreamCloses(1))

\* ========================================================================
\* Properties
\* ========================================================================
NoAccumulator == [fullResponse |-> <<>>, generatedMessage |-> <<>>]

\* the accumulated text, before cleanup, of a body delivered as one chunk
\* and then ended
OneChunk(body) ==
    LET r == OnData(<<>>, <<>>, body)
    IN OnEndAccumulate(r.fullResponse, r.generatedMessage)

\* the fragments of the lines of a text that are records, in order
RECURSIVE ConcatFragments(_)
ConcatFragments(lines) ==
    IF lines = <<>> THEN <<>>
    ELSE (IF JsonParses(Head(lines)) THEN ResponseOf(Head(lines)) ELSE <<>>)
         \o ConcatFragments(Tail(lines))

\* the accumulator of a request that received the chunks cs and nothing else
RECURSIVE RunAlone(_, _)
RunAlone(cs, st) ==
    IF cs = <<>> THEN st
    ELSE RunAlone(Tail(cs),
                  OnData(st.fullResponse, st.generatedMessage, Head(cs)))

Shown(i, n) == \E k \in 1..Len(notices[i]) : notices[i][k] = n

\* C1 (SpecStream): chunk-boundary independence. When the body is a
\* well-formed sequence of newline-terminated records, then however its
\* bytes were cut into chunks, the text accumulated by the data handler and
\* the end handler equals the text accumulated from the body as one chunk.
C1_ChunkBoundaryIndependence ==
    (wire \in WellFormedBodies /\ stream[1] = "ended")
        => generatedMessage[1] = OneChunk(wire)

\* C2 (Spec): byte conservation. After every data event the characters
\* received are the characters of parsed lines and line separators, followed
\* by the pending buffer: no character of a parsed line is still pending,
\* and no character has left the buffer unless its line parsed.
PendingFrom(i) == Len(received[i]) - Len(fullResponse[i])

C2_ByteConservation ==
    /\ fullResponse[1] =
           SubSeq(received[1], PendingFrom(1) + 1, Len(received[1]))
    /\ parsedPos[1] \cap ((PendingFrom(1) + 1)..Len(received[1])) = {}
    /\ \A p \in 1..PendingFrom(1) :
           p \in parsedPos[1] \/ received[1][p] \in WhiteSpace

\* C3 (SpecStream): order preservation. When the stream has ended, the
\* accumulated text before cleanup is the concatenation of the fragments of
\* the records of the body, in the order of the body, each exactly once.
C3_OrderPreservation ==
    stream[1] = "ended"
        => generatedMessage[1] =
               ConcatFragments(JsonResponses(ChunkToString(wire)))

\* C4 (SpecAny): single resolution. Whatever data, end and error events the
\* stream emits and in whatever order, the awaiting handler is resumed at
\* most once, exactly once as soon as an end or error event has been
\* handled, with a resolution or a rejection; and a settled request never
\* changes its outcome.
C4_Settled ==
    \A i \in Inv :
        /\ delivered[i] <= 1
        /\ Closed(i) =>
              /\ delivered[i] = 1
              /\ promise[i] \in {"resolved", "rejected"}
              /\ (promise[i] = "rejected") = (result[i].kind = "error")
              /\ (promise[i] = "resolved") = (result[i].kind \in {"text", "null"})

C4_Stays ==
    \A i \in Inv :
        promise[i] \in {"resolved", "rejected"} =>
            /\ promise'[i] = promise[i]
            /\ result'[i] = result[i]
            /\ delivered'[i] = delivered[i]

C4_SingleResolution == [](C4_Settled) /\ [][C4_Stays]_vars

\* an error event was handled after the request had resolved on end
C4_Witness ==
    /\ stream[1] = "ended"
    /\ promise[1] = "resolved"
    /\ late > 0
    /\ \E k \in 1..Len(notices[1]) : notices[1][k].kind = "error"

\* C5 (Spec): no error escapes the command handler. Every invocation
\* completes without an exception or rejection leaving the handler, and a
\* failed generation has shown a notice.
C5_NoErrorEscapes ==
    \A i \in Inv :
        /\ pc[i] # "rejected"
        /\ result[i].kind \in {"null", "error"} => notices[i] # <<>>

\* C6 (Spec): on a stream error event the request is rejected with the
\* transport error, which is the error reported, whatever was accumulated;
\* no text reaches the caller or the input field.
C6_StreamErrorFails ==
    \A i \in Inv :
        stream[i] = "errored" =>
            /\ promise[i] = "rejected"
            /\ result[i].kind = "error"
            /\ result[i].value \in StreamErrors
            /\ notices[i][Len(notices[i])] = ErrorNotice(result[i].value)
            /\ writes = <<>>

\* the stream failed after a fragment had been accumulated
C6_Witness ==
    /\ stream[1] = "errored"
    /\ generatedMessage[1] # <<>>
    /\ CleanMessage(generatedMessage[1]) # <<>>
    /\ promise[1] = "rejected"

\* C7 (Spec): empty result. When the stream has ended and the accumulated
\* text is empty after cleanup, the request resolved with null and the
\* empty-message warning was shown; and no value ever assigned to the input
\* field is empty.
C7_EmptyResult ==
    /\ \A i \in Inv :
           (stream[i] = "ended" /\ CleanMessage(generatedMessage[i]) = <<>>) =>
               /\ result[i] = NullResult
               /\ Shown(i, Notice("warning", "EmptyMessage"))
               /\ pc[i] = "returned"
    /\ \A k \in 1..Len(writes) : writes[k] # <<>>

\* the stream ended with text accumulated that cleanup reduced to nothing
C7_Witness ==
    /\ stream[1] = "ended"
    /\ generatedMessage[1] # <<>>
    /\ CleanMessage(generatedMessage[1]) = <<>>
    /\ result[1] = NullResult

\* C8 (SpecPair): independence of overlapping invocations. Under every
\* interleaving of the events of two requests, each request's pending
\* buffer and accumulated text are what its own chunks alone produce, and
\* its result is the result of running alone.
C8_Independent ==
    \A i \in Inv :
        LET alone == RunAlone(chunks[i], NoAccumulator)
            ended == OnEndAccumulate(alone.fullResponse, alone.generatedMessage)
        IN /\ stream[i] \in {"open", "errored"} =>
                 /\ fullResponse[i] = alone.fullResponse
                 /\ generatedMessage[i] = alone.generatedMessage
           /\ stream[i] = "errored" => result[i].kind = "error"
           /\ stream[i] = "ended" =>
                 /\ fullResponse[i] = alone.fullResponse
                 /\ generatedMessage[i] = ended
                 /\ result[i] = IF CleanMessage(ended) = <<>> THEN NullResult
                                ELSE TextResult(CleanMessage(ended))

\* request 1 has resolved with a text while request 2, started meanwhile,
\* holds half a record in its own buffer
C8_Witness ==
    /\ stream[1] = "ended"
    /\ result[1].kind = "text"
    /\ stream[2] = "open"
    /\ fullResponse[2] # <<>>
    /\ chunks[2] # chunks[1]

\* C9 (Spec): config missing. When apiUrl, model or prompt was read absent
\* or empty, the invocation has ended with the configuration error notice
\* and a null result, and has issued no HTTP request.
C9_ConfigMissing ==
    \A i \in Inv :
        (\E f \in {"apiUrl", "model", "prompt"} : cfg[i][f] \in {"absent", "empty"}) =>
            /\ posts[i] = 0
            /\ stream[i] = "none"
            /\ result[i] = NullResult
            /\ notices[i] = <<Notice("error", "ConfigurationMissing")>>
            /\ pc[i] = "returned"
            /\ writes = <<>>

\* only the prompt template is missing
C9_Witness ==
    /\ cfg[1] = [apiUrl |-> "set", model |-> "set", prompt |-> "empty"]
    /\ pc[1] = "returned"

\* C10 (Spec): no staged diff is a no-op. When there is no repository or the
\* staged diff is undefined or empty, the invocation has ended having shown
\* one informational notice, without calling generateCommitMessage, without
\* an HTTP request and without assigning the input field.
C10_NoStagedDiff ==
    \A i \in Inv :
        diff[i] \in {"norepo", "undefined", "empty"} =>
            /\ pc[i] = "returned"
            /\ Len(notices[i]) = 1
            /\ notices[i][1].kind = "info"
            /\ cfg[i] = NoConfig
            /\ posts[i] = 0
            /\ result[i] = NoResult
            /\ writes = <<>>
            /\ inputBox \in OldValues

\* the staged diff was the empty string and the field keeps its old text
C10_Witness ==
    /\ diff[1] = "empty"
    /\ pc[1] = "returned"
    /\ inputBox = <<"o">>

C11_Limit == IF maxDiffLength = <<>> THEN 4000 ELSE maxDiffLength[1]

\* the template with its first {diff} replaced by the first maxDiffLength
\* characters of the diff and the truncation marker
C11_InPlace ==
    LET k == IndexOf(promptTemplate, Placeholder)
    IN SubSeq(promptTemplate, 1, k - 1)
           \o SubSeq(diffText, 1, C11_Limit) \o TruncationMarker
           \o SubSeq(promptTemplate, k + Len(Placeholder), Len(promptTemplate))

\* C11 (SpecPrompt): diff truncation. For a diff longer than maxDiffLength
\* the text put in place of {diff} is the first maxDiffLength characters of
\* the diff followed by the truncation marker, and the prompt of the request
\* body is the template with {diff} replaced by that text.
C11_DiffTruncation ==
    \A i \in Inv :
        (/\ request[i].posted
         /\ IndexOf(promptTemplate, Placeholder) # 0
         /\ Len(diffText) > C11_Limit)
            => request[i].prompt = C11_InPlace

\* the stream of invocation i failed before any data event
C12_ErrorFirst(i) == stream[i] = "errored" /\ received[i] = <<>>

C12_Report(i) == notices[i][Len(notices[i])]

C13_Failed(i) ==
    /\ request[i].posted
    /\ result[i].kind \in {"null", "error"}
    /\ stream[i] # "ended"

\* C13 (Spec): no retry, surfaced once. An invocation issues at most one
\* HTTP POST, and a failed request has produced exactly one user-visible
\* report, an error message.
C13_NoRetry ==
    \A i \in Inv :
        /\ posts[i] <= 1
        /\ C13_Failed(i) =>
               /\ Len(notices[i]) = 1
               /\ notices[i][1].kind = "error"

\* the POST was rejected and the failure reported
C13_Witness ==
    /\ posts[1] = 1
    /\ stream[1] = "none"
    /\ result[1] = NullResult
    /\ notices[1] = <<Notice("error", "CouldNotConnect")>>

\* the text the server sent in the single record of the response
C14_Input == SubSeq(wire, 2, Len(wire) - 2)

\* s without its leading and trailing whitespace
C14_Trimmed(s) ==
    LET ink == {k \in 1..Len(s) : s[k] \notin WhiteSpace}
    IN IF ink = {} THEN <<>>
       ELSE SubSeq(s, CHOOSE a \in ink : \A k \in ink : a <= k,
                      CHOOSE b \in ink : \A k \in ink : k <= b)

\* one layer of quotes removed when s is wrapped in a matching pair
C14_Unquoted(s) ==
    IF Len(s) >= 2 /\ s[1] = s[Len(s)] /\ s[1] \in {"\"", "'"}
    THEN SubSeq(s, 2, Len(s) - 1) ELSE s

\* a leading label removed, whatever its case, and the rest trimmed
C14_Unlabelled(s, label) ==
    IF /\ Len(s) >= Len(label)
       /\ \A k \in 1..Len(label) : ToLower(s[k]) = label[k]
    THEN C14_Trimmed(SubSeq(s, Len(label) + 1, Len(s)))
    ELSE C14_Trimmed(s)

C14_Expected(s) ==
    C14_Unlabelled(
        C14_Unlabelled(C14_Unquoted(C14_Trimmed(s)),
            <<"c","o","m","m","i","t"," ","m","e","s","s","a","g","e",":">>),
        <<"m","e","s","s","a","g","e",":">>)

\* C14 (SpecClean): cleanup of the accumulated text. The text is trimmed; if
\* it is wrapped in one matching pair of straight quotes one layer is
\* removed; then a leading "commit message:" label and then a leading
\* "message:" label, in any case, are each removed once, trimming after
\* each; the request resolves with that text (with null when it is empty).
\* The quoted example yields Refactor auth module and the labelled example
\* yields Add retry logic.
C14_Cleanup ==
    stream[1] = "ended" =>
        /\ generatedMessage[1] = C14_Input
        /\ result[1] = IF C14_Expected(C14_Input) = <<>> THEN NullResult
                       ELSE TextResult(C14_Expected(C14_Input))
        /\ C14_Input = QuotedExample =>
               result[1].value =
                   <<"R","e","f","a","c","t","o","r"," ","a","u","t","h"," ",
                     "m","o","d","u","l","e">>
        /\ C14_Input = LabelledExample =>
               result[1].value =
                   <<"A","d","d"," ","r","e","t","r","y"," ",
                     "l","o","g","i","c">>

\* the labelled example went through the cleanup
C14_Witness ==
    /\ stream[1] = "ended"
    /\ C14_Input = LabelledExample
    /\ result[1].kind = "text"
    /\ Len(result[1].value) = 15

C15_Fails(line) == ~JsonParses(line)

\* C15 (Spec): retention of unparseable lines. After every data event the
\* lines of the pending buffer are exactly the lines received so far that
\* fail to parse, in their order: such a line is neither consumed nor
\* discarded, also when a later line of the same buffer parses, and it stays
\* in the buffer until the stream ends.
C15_Retention ==
    JsonResponses(fullResponse[1])
        = SelectSeq(JsonResponses(received[1]), C15_Fails)

\* where the text after the final newline of s starts
C16_TailFrom(s) ==
    LET nls == {k \in 1..Len(s) : s[k] = NL}
    IN IF nls = {} THEN 1 ELSE (CHOOSE k \in nls : \A j \in nls : j <= k) + 1

\* C16 (Spec): last candidate line retained. The text received after the
\* final newline so far is the end of the pending buffer, and no data event
\* has parsed it and appended its fragment, whether or not it parses as
\* JSON; only a later newline or the end handler consumes it.
C16_LastLineRetained ==
    LET from == C16_TailFrom(received[1])
        last == SubSeq(received[1], from, Len(received[1]))
    IN /\ Len(fullResponse[1]) >= Len(last)
       /\ SubSeq(fullResponse[1], Len(fullResponse[1]) - Len(last) + 1,
                 Len(fullResponse[1])) = last
       /\ parsedPos[1] \cap (from..Len(received[1])) = {}

\* what the claim has the end event make of buffer buf and accumulated gm
C17_Drained(buf, gm) ==
    IF Trim(buf) # <<>> /\ JsonParses(buf) THEN gm \o ResponseOf(buf) ELSE gm

C17_ErrorsShown(ns) == {k \in 1..Len(ns) : ns[k].kind = "error"}

C17_EndStep ==
    (stream[1] = "open" /\ stream'[1] = "ended") =>
        LET text == C17_Drained(fullResponse[1], generatedMessage[1]) IN
        /\ generatedMessage'[1] = text
        /\ promise'[1] = "resolved"
        /\ result'[1] = IF CleanMessage(text) = <<>> THEN NullResult
                        ELSE TextResult(CleanMessage(text))
        /\ C17_ErrorsShown(notices'[1]) = C17_ErrorsShown(notices[1])
        /\ pc'[1] = "returned"

\* C17 (SpecCloses): drain at stream end. On the end event a pending buffer
\* that is not blank is parsed once as a single record; when it parses its
\* fragment is appended, when it does not it is dropped and no error message
\* is shown; either way the request resolves, with the cleaned accumulated
\* text or, when that is empty, with null.
C17_DrainAtEnd == [][C17_EndStep]_vars

\* the stream ended on a line that is no record, after a record: the line
\* was dropped and the request resolved with the record's fragment
C17_Witness ==
    /\ stream[1] = "ended"
    /\ fullResponse[1] = <<"a">>
    /\ generatedMessage[1] = <<"a">>
    /\ result[1] = TextResult(<<"a">>)
    /\ C17_ErrorsShown(notices[1]) = {}

C18_Reading(i) == drain[i].state = "pending"

C18_Settled(i) == drain[i].state = "settled"

\* once the read has settled, the HTTP error has been reported, once, and
\* the request has returned null
C18_Reported(i) ==
    C18_Settled(i) =>
        /\ notices[i] = <<Notice("error", "OllamaApiError")>>
        /\ result[i] = NullResult
        /\ delivered[i] = 1
        /\ pc[i] = "returned"

\* the first of end, error and the timer settles the read, the timer with
\* the text read so far or else the placeholder
C18_First(i) ==
    (C18_Reading(i) /\ drain'[i] # drain[i] /\ drain'[i].data = drain[i].data) =>
        /\ C18_Settled(i)'
        /\ drain'[i].timer =>
               drain'[i].details =
                   IF drain[i].data > 0 THEN "partial"
                   ELSE "TimeoutReadingErrorStream"
        /\ ~drain'[i].timer =>
               drain'[i].details \in
                   {"partial", "statusText", "ErrorReadingErrorStream"}

\* what has settled stays as it is
C18_Once(i) ==
    C18_Settled(i) =>
        /\ C18_Settled(i)'
        /\ drain'[i].details = drain[i].details
        /\ notices'[i] = notices[i]
        /\ result'[i] = result[i]
        /\ delivered'[i] = delivered[i]

\* C18 (SpecDrain): bounded error-body drain. The read of an error body
\* that is a stream settles exactly once, with whichever of end, error and
\* the timer comes first; and it always settles, by the timer when the error
\* stream neither ends nor fails, with the text read so far or the
\* placeholder, after which the HTTP error is reported and the request
\* returns null.
C18_BoundedDrain ==
    /\ [](\A i \in Inv : C18_Reported(i))
    /\ [][\A i \in Inv : C18_First(i) /\ C18_Once(i)]_vars
    /\ \A i \in Inv : C18_Reading(i) ~> (C18_Settled(i) /\ pc[i] = "returned")

\* the timer settled a read that had got no data, and the end of the error
\* stream came after it
C18_Witness ==
    /\ C18_Settled(1)
    /\ drain[1].details = "TimeoutReadingErrorStream"
    /\ drain[1].timer
    /\ drain[1].closed
    /\ result[1] = NullResult

\* the field is assigned at most once, and then with the cleaned text, after
\* the end of the stream
C19_Assigned ==
    /\ Len(writes) <= 1
    /\ writes # <<>> =>
           /\ stream[1] = "ended"
           /\ result[1].kind = "text"
           /\ writes[1] # <<>>
           /\ writes[1] = CleanMessage(generatedMessage[1])
           /\ inputBox = writes[1]

\* only the step that handles the end event assigns the field
C19_Frame ==
    (inputBox' # inputBox \/ writes' # writes) =>
        /\ stream[1] = "open"
        /\ stream'[1] = "ended"
        /\ writes = <<>>

\* C19 (Spec): input field frame. Within one invocation the input field is
\* assigned at most once, by the step that handles the stream's end event
\* and with the non-empty cleaned result; data events and every other path
\* (no diff, configuration missing, HTTP error, connection failure, stream
\* error, empty result) leave it as it was.
C19_InputFieldFrame == []C19_Assigned /\ [][C19_Frame]_vars

\* the stream ended and the field was assigned the generated message
C19_Witness ==
    /\ writes = <<<<"a">>>>
    /\ inputBox = <<"a">>
    /\ stream[1] = "ended"
    /\ pc[1] = "returned"

C20_Settled(i) ==
    /\ promise[i] \in {"resolved", "rejected"}
    /\ delivered[i] = 1
    /\ pc[i] \in {"returned", "rejected"}

\* as long as neither end nor error has come, the request is pending
C20_Waits(i) ==
    stream[i] = "open" =>
        /\ promise[i] = "pending"
        /\ delivered[i] = 0
        /\ result[i] = NoResult
        /\ pc[i] = "streaming"

\* C20 (SpecCloses): eventual completion. Once the response headers have
\* arrived, a stream that is sure to deliver end or error leads to a settled
\* request, after any data events and whatever their content, lines that
\* never parse included; and until end or error comes the request stays
\* pending.
C20_EventualCompletion ==
    /\ []C20_Waits(1)
    /\ (stream[1] = "open") ~> C20_Settled(1)

\* the stream ended on a body with a line that never parsed, and the
\* request resolved
C20_Witness ==
    /\ stream[1] = "ended"
    /\ Trim(fullResponse[1]) # <<>>
    /\ ~JsonParses(fullResponse[1])
    /\ C20_Settled(1)

====
